---- MODULE Spec2Model ----
(***************************************************************************)
(* Model of the session engine of interactive/server.py: the session       *)
(* store, the output collector, the marker-scanning wait loop, the input   *)
(* send with preflush, explicit exit and the idle reaper.                  *)
(*                                                                         *)
(* Strings are sequences of one-character strings; positions are 0-based   *)
(* as in Python.  A spawned process is identified by the number of the     *)
(* spawn (1, 2, ...); its pseudo-terminal master descriptor is identified  *)
(* with it.  The handlers are coroutines without an await in their body    *)
(* (the wait loop sleeps with time.sleep), so on the event loop a handler  *)
(* runs to its end before another one starts; what does interleave with    *)
(* the wait loop is the environment: the child process writing to its      *)
(* terminal, and the clock.                                                *)
(***************************************************************************)
EXTENDS Integers, Sequences, FiniteSets, TLC

\* ---------------------------------------------------------------- bounds
\* Spec, the whole engine:
MaxProcs == 3     \* successful start_session calls in a run
MaxOut   == 1     \* characters all child processes write in a run
MaxTime  == 2     \* the clock runs 0..MaxTime (seconds, _now())
\* SpecEngine, the buffer and its two positions under the caller's operations:
EngineProcs == 1  \* successful start_session calls in a run
EngineOut   == 3  \* characters all child processes write in a run

\* ------------------------------------------------------ program constants
\* capture_output's buffer_size (4096 in the source), scaled down so that
\* "more pending output than one read returns" is reachable.
buffer_size == 2
\* SESSION_TIMEOUT (seconds; 3600 by default, set from the environment).
SESSION_TIMEOUT == 1

\* The characters a child process writes, and the markers callers wait for.
Chars == {"a", "b", " "}
\* The prompt lists callers pass: single markers (one of them two characters
\* long, one empty) and a list of two.
PromptLists ==
    {<< <<"a">> >>, << <<"b">> >>, << <<"a", "b">> >>, << <<>> >>,
     << <<"b">>, <<"a">> >>}

\* A byte that is not valid UTF-8: bytes.decode() raises UnicodeDecodeError on
\* a chunk that holds one.
Undecodable == "?"

Procs == 1..MaxProcs
Ids   == 1..MaxProcs

VARIABLES
    sessions,   \* the store: id -> session record (a function on a subset of Ids)
    nprocs,     \* processes spawned so far
    pending,    \* p -> output written by process p and not yet read from its terminal
    written,    \* p -> number of characters process p has written so far
    fd_open,    \* p -> the master descriptor of p's terminal is open
    now,        \* the clock, int(time.time())
    w,          \* the wait call in progress (its local variables), pc = "idle" when none
    ret,        \* the value the step just taken returned to its caller (NoRet when
                \* the step returned nothing), with the call's arguments, the locals
                \* it was computed from, the session's history before the return and
                \* fds_left, the descriptors the call allocated that are open on
                \* return and held by no store entry
    started,    \* history: the ids start_session returned, in order
    match_end,  \* history: p -> highest end index of a marker a wait matched, -1 if none
    reported,   \* history: p -> highest end index of a non-empty captured_output
    timed,      \* history: p -> the range [lo, hi) of the buffer that the last timed-out
                \* wait with a non-empty captured_output returned, lo = hi = 0 if none
    flushed,    \* history: p -> characters p had written when the last preflush ran, -1 if
                \* no wait has to be checked against one
    closes,     \* p -> number of os.close calls on the master descriptor of p's terminal
    last_call,  \* history: p -> the time of the last send_command or wait call on
                \* p's session, -1 if none
    taken,      \* history: p -> the bytes os.read has returned from p's terminal, in
                \* the order they were read
    track       \* which history a run records: "engine" (match_end, reported, timed,
                \* flushed: what the waits of a session returned) or "store"
                \* (last_call: when the callers used a session); never changes

vars == <<sessions, nprocs, pending, written, fd_open, now, w, ret,
          started, match_end, reported, timed, flushed, closes, last_call,
                   taken, track>>

\* the new value of a history variable that only runs tracking `what` record
Recorded(what, new, old) == IF track = what THEN new ELSE old

\* ------------------------------------------------------- Python strings
Min(a, b) == IF a < b THEN a ELSE b
Max(a, b) == IF a > b THEN a ELSE b

\* s[a:b] for 0 <= a, 0 <= b
Slice(s, a, b) ==
    LET e == Min(b, Len(s))
    IN  IF a >= e THEN <<>> ELSE SubSeq(s, a + 1, e)

\* s.find(sub, start): the lowest index >= start where sub occurs, -1 if none
RECURSIVE Find(_, _, _)
Find(s, sub, start) ==
    IF start + Len(sub) > Len(s) THEN -1
    ELSE IF Slice(s, start, start + Len(sub)) = sub THEN start
    ELSE Find(s, sub, start + 1)

Whitespace == {" ", "\t", "\r", "\n"}

\* whitespace_end with an if in place of the while: at most one character consumed
whitespace_end_once(shared_buffer, pos) ==
    IF pos < Len(shared_buffer) /\ shared_buffer[pos + 1] \in Whitespace
    THEN pos + 1
    ELSE pos

\* the loop that consumes whitespace after a matched prompt: the index it stops at
RECURSIVE whitespace_end(_, _)
whitespace_end(shared_buffer, pos) ==
    IF pos < Len(shared_buffer) /\ shared_buffer[pos + 1] \in Whitespace
    THEN whitespace_end(shared_buffer, pos + 1)
    ELSE pos

\* first_prompt choosing the prompt whose occurrence starts lowest (the earlier
\* of the list on a tie) instead of the first of the list that occurs
first_prompt_lowest(prompts, shared_buffer, search_pos, k) ==
    LET found == {j \in k..Len(prompts) :
                     Find(shared_buffer, prompts[j], search_pos) # -1}
        at(j) == Find(shared_buffer, prompts[j], search_pos)
    IN  IF found = {} THEN 0
        ELSE CHOOSE j \in found :
                 \A i \in found : at(j) < at(i) \/ (at(j) = at(i) /\ j <= i)

\* the for loop over prompts: the index in prompts (1-based) of the first prompt
\* that find() locates at or after search_pos, 0 if none does
RECURSIVE first_prompt(_, _, _, _)
first_prompt(prompts, shared_buffer, search_pos, k) ==
    IF k > Len(prompts) THEN 0
    ELSE IF Find(shared_buffer, prompts[k], search_pos) # -1 THEN k
    ELSE first_prompt(prompts, shared_buffer, search_pos, k + 1)

\* match_seek one past the end of the prompt, whatever follows it
match_seek_off_by_one(shared_buffer, prompt, prompt_index, consume) ==
    prompt_index + Len(prompt) + 1

\* seek_position after a match at prompt_index
match_seek(shared_buffer, prompt, prompt_index, consume) ==
    LET after == prompt_index + Len(prompt)
    IN  IF consume THEN whitespace_end(shared_buffer, after) ELSE after

\* match_search left at the start of the matched prompt
match_search_at_index(seek_position, prompt_index) == prompt_index

\* search_pos after a match
match_search(seek_position, prompt_index) == seek_position

\* --------------------------------------------------------------- records
Session(p, buf, seek, search, t) ==
    [process |-> p, shared_buffer |-> buf, seek_position |-> seek,
     search_pos |-> search, last_activity |-> t]

Idle ==
    [pc |-> "idle", session_id |-> 0, process |-> 0, prompts |-> <<>>,
     return_output |-> FALSE, consume |-> FALSE, shared_buffer |-> <<>>,
     seek_position |-> 0, search_pos |-> 0, start_pos |-> 0, mark |-> -1]

NoRet ==
    [op |-> "none", session_id |-> 0, process |-> 0, status |-> "none",
     prompt |-> <<>>, prompt_index |-> -1, captured_none |-> TRUE,
     captured_output |-> <<>>, remaining_bytes |-> 0, start_pos |-> 0,
     return_output |-> FALSE, consume |-> FALSE, preflush |-> FALSE,
     prompts |-> <<>>, search_pos |-> 0, mark |-> -1, prior_match_end |-> -1,
     prior_reported |-> 0, prior_timed |-> [lo |-> 0, hi |-> 0],
     selected |-> {}, active |-> [i \in {} |-> "running"], fds_left |-> 0,
     terminated |-> {}, signalled |-> {}]

RECURSIVE SumTo(_, _)
SumTo(f, n) == IF n = 0 THEN 0 ELSE f[n] + SumTo(f, n - 1)

\* sessions[session_id] = rec
Put(store, session_id, rec) ==
    [i \in DOMAIN store \cup {session_id} |->
        IF i = session_id THEN rec ELSE store[i]]

\* Pop that reads the entry and leaves it in the store
Pop_kept(store, session_id) == store

\* sessions.pop(session_id)
Pop(store, session_id) ==
    [i \in DOMAIN store \ {session_id} |-> store[i]]

\* refresh_last_activity that registers an id it does not find
refresh_registers(store, session_id, t) ==
    IF session_id \in DOMAIN store
    THEN [store EXCEPT ![session_id].last_activity = t]
    ELSE [i \in DOMAIN store \cup {session_id} |->
             IF i = session_id
             THEN [process |-> 0, shared_buffer |-> <<>>, seek_position |-> 0,
                   search_pos |-> 0, last_activity |-> t]
             ELSE store[i]]

\* refresh_last_activity that leaves the stamp as it is
refresh_skipped(store, session_id, t) == store

\* _refresh_last_activity(session_id)
refresh_last_activity(store, session_id, t) ==
    IF session_id \in DOMAIN store
    THEN [store EXCEPT ![session_id].last_activity = t]
    ELSE store

\* capture_output: one non-blocking read of at most buffer_size characters;
\* the empty string when nothing is pending (BlockingIOError)
capture_output(pend) == Slice(pend, 0, buffer_size)
after_read(pend) == Slice(pend, buffer_size, Len(pend))
\* os.read(...).decode() returns: the chunk read holds no undecodable byte.
\* Only BlockingIOError is caught, so when it does not return the exception
\* leaves capture_output and its caller, after the bytes were taken from the
\* terminal.
decodes(chunk) == \A i \in DOMAIN chunk : chunk[i] # Undecodable

InitState ==
    /\ sessions = [i \in {} |-> 0]
    /\ nprocs = 0
    /\ pending = [p \in Procs |-> <<>>]
    /\ written = [p \in Procs |-> 0]
    /\ fd_open = [p \in Procs |-> FALSE]
    /\ now = 0
    /\ w = Idle
    /\ ret = NoRet
    /\ started = <<>>
    /\ match_end = [p \in Procs |-> -1]
    /\ reported = [p \in Procs |-> 0]
    /\ timed = [p \in Procs |-> [lo |-> 0, hi |-> 0]]
    /\ flushed = [p \in Procs |-> -1]
    /\ closes = [p \in Procs |-> 0]
    /\ last_call = [p \in Procs |-> -1]
    /\ taken = [p \in Procs |-> <<>>]

Init == InitState /\ track = "store"
InitEngine == InitState /\ track = "engine"

\* ------------------------------------------------------------ environment
\* The child process of a session in the store writes one character to its
\* terminal.  (Output of a process no store entry refers to is never read.)
ProcWrite(p, c) ==
    /\ fd_open[p]
    /\ \E i \in DOMAIN sessions : sessions[i].process = p
    /\ pending' = [pending EXCEPT ![p] = Append(@, c)]
    /\ written' = [written EXCEPT ![p] = @ + 1]
    /\ ret' = NoRet
    /\ UNCHANGED <<sessions, nprocs, fd_open, now, w, started,
                   match_end, reported, timed, flushed, closes, last_call,
                   taken, track>>

Tick ==
    /\ now' = now + 1
    /\ ret' = NoRet
    /\ UNCHANGED <<sessions, nprocs, pending, written, fd_open, w, started,
                   match_end, reported, timed, flushed, closes, last_call,
                   taken, track>>

\* ---------------------------------------------------------- start_session
start_session_ok ==
    /\ w.pc = "idle"
    /\ nprocs < MaxProcs
    /\ LET session_id == Cardinality(DOMAIN sessions) + 1
           p == nprocs + 1
       IN  /\ nprocs' = p
           /\ fd_open' = [fd_open EXCEPT ![p] = TRUE]
           /\ sessions' = Put(sessions, session_id, Session(p, <<>>, 0, 0, now))
           /\ started' = Append(started, session_id)
           /\ ret' = [NoRet EXCEPT !.op = "start_session", !.status = "started",
                                   !.session_id = session_id, !.process = p]
    /\ UNCHANGED <<pending, written, now, w, match_end, reported, timed, flushed,
                   closes, last_call, taken, track>>

\* what can raise in the try block: pty.openpty() (no descriptor allocated),
\* or subprocess.Popen (FileNotFoundError or another exception) after openpty
\* returned the two descriptors
SpawnFailures == {"openpty", "popen"}

\* A failed start: an error string and no entry.  Neither except clause
\* closes master_fd and slave_fd; nothing refers to them after the return.
start_session_error(failure) ==
    /\ w.pc = "idle"
    /\ ret' = [NoRet EXCEPT !.op = "start_session", !.status = "error",
                            !.fds_left = IF failure = "popen" THEN 2 ELSE 0]
    /\ UNCHANGED <<sessions, nprocs, pending, written, fd_open, now, w, started,
                   match_end, reported, timed, flushed, closes, last_call,
                   taken, track>>

\* ------------------------------------------------ wait_for_output_or_prompt
\* Entry: refresh the activity stamp, reject an unknown id, read the record
\* into the locals and remember start_pos.
wait_begin(session_id, prompts, return_output, consume) ==
    /\ w.pc = "idle"
    /\ sessions' = refresh_last_activity(sessions, session_id, now)
    /\ IF session_id \notin DOMAIN sessions
       THEN /\ ret' = [NoRet EXCEPT !.op = "wait", !.status = "error",
                                    !.session_id = session_id]
            /\ UNCHANGED <<w, flushed, last_call>>
       ELSE LET rec == sessions[session_id]
            IN  /\ w' = [pc |-> "loop", session_id |-> session_id,
                         process |-> rec.process, prompts |-> prompts,
                         return_output |-> return_output, consume |-> consume,
                         shared_buffer |-> rec.shared_buffer,
                         seek_position |-> rec.seek_position,
                         search_pos |-> rec.search_pos,
                         start_pos |-> rec.seek_position,
                         mark |-> flushed[rec.process]]
                /\ flushed' = Recorded("engine",
                                       [flushed EXCEPT ![rec.process] = -1], flushed)
                /\ last_call' = Recorded("store",
                                         [last_call EXCEPT ![rec.process] = now],
                                         last_call)
                /\ ret' = NoRet
    /\ UNCHANGED <<nprocs, pending, written, fd_open, now, started,
                   match_end, reported, timed, closes, taken, track>>

\* the dict a wait returns, with the locals it was computed from
wait_result(status, prompt, prompt_index, shared_buffer, seek_position) ==
    [NoRet EXCEPT
        !.op = "wait", !.status = status, !.session_id = w.session_id,
        !.process = w.process, !.prompt = prompt, !.prompt_index = prompt_index,
        !.captured_none = ~w.return_output,
        !.captured_output =
            IF w.return_output THEN Slice(shared_buffer, w.start_pos, seek_position)
            ELSE <<>>,
        !.remaining_bytes =
            IF status = "prompt_detected" THEN Len(shared_buffer) - seek_position
            ELSE 0,
        !.start_pos = w.start_pos, !.return_output = w.return_output,
        !.consume = w.consume, !.prompts = w.prompts,
        !.search_pos = w.search_pos, !.mark = w.mark,
        !.prior_match_end = match_end[w.process],
        !.prior_reported = reported[w.process],
        !.prior_timed = timed[w.process]]

\* the status of a wait that timed out, from its captured_output
timeout_status(captured_none, captured_output) ==
    IF ~captured_none /\ Len(captured_output) > 0
    THEN "prompt_timeout_with_bytes_received"
    ELSE "prompt_timeout_no_bytes_received"

\* One iteration of the loop: read, append and store, scan the prompts in the
\* order given, and return at the first one found.  When the chunk read does
\* not decode, the exception ends the call.
wait_iteration ==
    /\ w.pc = "loop"
    /\ LET p == w.process
           new_data == capture_output(pending[p])
           shared_buffer == w.shared_buffer \o new_data
           stored == IF new_data # <<>>
                     THEN Put(sessions, w.session_id,
                              Session(p, shared_buffer, w.seek_position,
                                      w.search_pos, now))
                     ELSE sessions
           k == first_prompt(w.prompts, shared_buffer, w.search_pos, 1)
       IN  /\ pending' = [pending EXCEPT ![p] = after_read(@)]
           /\ taken' = [taken EXCEPT ![p] = @ \o new_data]
           /\ IF ~decodes(new_data)
              THEN /\ ret' = [NoRet EXCEPT !.op = "wait", !.status = "raised",
                                           !.session_id = w.session_id,
                                           !.process = p]
                   /\ w' = Idle
                   /\ UNCHANGED <<sessions, match_end, reported>>
              ELSE IF k = 0
              THEN /\ sessions' = stored
                   /\ w' = [w EXCEPT !.shared_buffer = shared_buffer]
                   /\ ret' = NoRet
                   /\ UNCHANGED <<match_end, reported>>
              ELSE LET prompt == w.prompts[k]
                       prompt_index == Find(shared_buffer, prompt, w.search_pos)
                       seek_position ==
                           match_seek(shared_buffer, prompt, prompt_index, w.consume)
                       r == wait_result("prompt_detected", prompt, prompt_index,
                                        shared_buffer, seek_position)
                   IN  /\ sessions' = Put(stored, w.session_id,
                                          Session(p, shared_buffer, seek_position,
                                                  match_search(seek_position,
                                                               prompt_index),
                                                  now))
                       /\ ret' = r
                       /\ w' = Idle
                       /\ match_end' = Recorded("engine",
                              [match_end EXCEPT ![p] = Max(@, seek_position)],
                              match_end)
                       /\ reported' = Recorded("engine",
                              [reported EXCEPT ![p] =
                                  IF r.captured_output # <<>>
                                  THEN Max(@, seek_position) ELSE @],
                              reported)
    /\ UNCHANGED <<nprocs, written, fd_open, now, started, timed, flushed,
                   closes, last_call, track>>

\* The loop ends because the elapsed time reached the timeout.
wait_timeout ==
    /\ w.pc = "loop"
    /\ LET p == w.process
           seek_position == Len(w.shared_buffer)
           r0 == wait_result("timeout", <<>>, -1, w.shared_buffer, seek_position)
           r == [r0 EXCEPT !.status =
                    timeout_status(r0.captured_none, r0.captured_output)]
       IN  /\ sessions' = Put(sessions, w.session_id,
                              Session(p, w.shared_buffer, seek_position,
                                      w.search_pos, now))
           /\ ret' = r
           /\ reported' = Recorded("engine",
                  [reported EXCEPT ![p] =
                      IF r.captured_output # <<>> THEN Max(@, seek_position) ELSE @],
                  reported)
           /\ timed' = Recorded("engine",
                  [timed EXCEPT ![p] =
                      IF r.captured_output # <<>>
                      THEN [lo |-> w.start_pos, hi |-> seek_position] ELSE @],
                  timed)
    /\ w' = Idle
    /\ UNCHANGED <<nprocs, pending, written, fd_open, now, started, match_end,
                   flushed, closes, last_call, taken, track>>

\* ------------------------------------------------------------ send_command
\* refresh the stamp, reject an unknown id, preflush (capture_output raising
\* ends the call before anything is written), write; an OSError of the write
\* is returned as a string.
\* advance_session_buffer_to_end: one capture_output, then both positions to
\* the end of the buffer
advance_session_buffer_to_end(rec, new_data, t) ==
    LET shared_buffer == rec.shared_buffer \o new_data
    IN  Session(rec.process, shared_buffer, Len(shared_buffer),
                Len(shared_buffer), t)

send_command(session_id, preflush, write_ok) ==
    /\ w.pc = "idle"
    /\ IF session_id \notin DOMAIN sessions
       THEN /\ ret' = [NoRet EXCEPT !.op = "send", !.status = "error",
                                    !.session_id = session_id,
                                    !.preflush = preflush]
            /\ sessions' = refresh_last_activity(sessions, session_id, now)
            /\ UNCHANGED <<pending, flushed, last_call, taken>>
       ELSE LET refreshed == refresh_last_activity(sessions, session_id, now)
                rec == refreshed[session_id]
                p == rec.process
                new_data == capture_output(pending[p])
                raised == preflush /\ ~decodes(new_data)
            IN  /\ IF preflush
                   THEN /\ sessions' =
                              IF raised THEN refreshed
                              ELSE Put(refreshed, session_id,
                                       advance_session_buffer_to_end(
                                           rec, new_data, now))
                        /\ pending' = [pending EXCEPT ![p] = after_read(@)]
                        /\ taken' = [taken EXCEPT ![p] = @ \o new_data]
                        /\ flushed' = Recorded("engine",
                               [flushed EXCEPT ![p] = written[p]], flushed)
                   ELSE /\ sessions' = refreshed
                        /\ UNCHANGED <<pending, flushed, taken>>
                /\ last_call' = Recorded("store",
                                         [last_call EXCEPT ![p] = now], last_call)
                /\ ret' = [NoRet EXCEPT
                              !.op = "send", !.session_id = session_id,
                              !.process = p, !.preflush = preflush,
                              !.status = IF raised THEN "raised"
                                         ELSE IF write_ok THEN "sent"
                                         ELSE "write_failed"]
    /\ UNCHANGED <<nprocs, written, fd_open, now, w, started,
                   match_end, reported, timed, closes, track>>

\* The history of a session ends with it: once its descriptor is closed no
\* later step reads what was recorded about it.
forget(gone) ==
    /\ written' = [p \in Procs |-> IF p \in gone THEN 0 ELSE written[p]]
    /\ match_end' = [p \in Procs |-> IF p \in gone THEN -1 ELSE match_end[p]]
    /\ reported' = [p \in Procs |-> IF p \in gone THEN 0 ELSE reported[p]]
    /\ timed' = [p \in Procs |->
                    IF p \in gone THEN [lo |-> 0, hi |-> 0] ELSE timed[p]]
    /\ flushed' = [p \in Procs |-> IF p \in gone THEN -1 ELSE flushed[p]]
    /\ last_call' = [p \in Procs |-> IF p \in gone THEN -1 ELSE last_call[p]]
    /\ taken' = [p \in Procs |-> IF p \in gone THEN <<>> ELSE taken[p]]

\* ------------------------------------------------------------ exit_session
\* outcome: "exited" (terminate and wait succeed, or raise something other
\* than TimeoutExpired, which the handler only logs), "killed" (the wait timed
\* out and killpg succeeded), "kill_failed" (killpg raised, which leaves the
\* handler after the finally clause has closed the descriptor)
ExitOutcomes == {"exited", "killed", "kill_failed"}

\* the body of the handler, from its first line to its return
exit_session_steps(session_id, outcome) ==
    /\ IF session_id \notin DOMAIN sessions
       THEN /\ ret' = [NoRet EXCEPT !.op = "exit", !.status = "error",
                                    !.session_id = session_id]
            /\ sessions' = refresh_last_activity(sessions, session_id, now)
            /\ UNCHANGED <<pending, fd_open, closes>>
       ELSE LET p == sessions[session_id].process
            IN  /\ sessions' = Pop(refresh_last_activity(sessions, session_id, now),
                                   session_id)
                /\ fd_open' = [fd_open EXCEPT ![p] = FALSE]
                /\ closes' = [closes EXCEPT ![p] = @ + 1]
                /\ pending' = [pending EXCEPT ![p] = <<>>]
                /\ forget({p})
                /\ ret' = [NoRet EXCEPT
                              !.op = "exit", !.session_id = session_id,
                              !.process = p,
                              !.status = IF outcome = "kill_failed" THEN "raised"
                                         ELSE "terminated"]
    /\ IF session_id \notin DOMAIN sessions
       THEN UNCHANGED <<written, match_end, reported, timed, flushed, last_call,
                        taken>>
       ELSE TRUE
    /\ UNCHANGED <<nprocs, now, w, started, track>>

\* exit_session started while a wait is inside its loop, as it could be if the
\* loop gave the event loop a turn between two iterations
exit_session_during_wait(session_id, outcome) ==
    exit_session_steps(session_id, outcome)

\* The handler runs when the event loop is free: no wait is in its loop.
exit_session(session_id, outcome) ==
    /\ w.pc = "idle"
    /\ exit_session_steps(session_id, outcome)

\* ------------------------------------------------------------- idle reaper
\* to_terminate cut to the first session selected
to_terminate_first ==
    LET idle == {sid \in DOMAIN sessions :
                    now - sessions[sid].last_activity > SESSION_TIMEOUT}
    IN  {sid \in idle : \A other \in idle : sid <= other}

\* the sessions one cycle of session_cleanup_task selects
to_terminate ==
    {sid \in DOMAIN sessions : now - sessions[sid].last_activity > SESSION_TIMEOUT}

\* terminated_ids with a pop that raises KeyError on an id it does not find,
\* which ends the loop there (the ids are taken in ascending order)
terminated_ids_until_missing(selection) ==
    {sid \in selection \cap DOMAIN sessions :
        \A missing \in selection \ DOMAIN sessions : sid < missing}

\* the ids of the selection that _terminate_session finds in the store; for
\* the others it returns at once (pop with a default, lines 93-95)
terminated_ids(selection) == selection \cap DOMAIN sessions

\* for sid in selection: _terminate_session(sid).  Each id found is popped,
\* its process signalled and its descriptor closed; every exception of
\* terminate, wait, killpg and close is swallowed.
terminate_each(selection) ==
    LET gone == {sessions[sid].process : sid \in terminated_ids(selection)}
    IN  /\ sessions' = [i \in DOMAIN sessions \ terminated_ids(selection) |->
                           sessions[i]]
        /\ fd_open' = [p \in Procs |-> fd_open[p] /\ p \notin gone]
        /\ closes' = [p \in Procs |-> closes[p] + (IF p \in gone THEN 1 ELSE 0)]
        /\ pending' = [p \in Procs |-> IF p \in gone THEN <<>> ELSE pending[p]]
        /\ forget(gone)

\* One cycle: select, then _terminate_session for each selected id (pop,
\* terminate, close; every exception swallowed).  The cycle has no await
\* between the selection and the last termination, and it runs only when no
\* handler does (the wait loop never yields to the event loop).  A cycle that
\* selects nothing changes nothing and is left to stuttering.
session_cleanup_cycle ==
    /\ w.pc = "idle"
    /\ to_terminate # {}
    /\ terminate_each(to_terminate)
    /\ ret' = [NoRet EXCEPT !.op = "cleanup", !.selected = to_terminate]
    /\ UNCHANGED <<nprocs, now, w, started, track>>

\* The same loop run by a caller over a selection it made before, as the
\* cleanup of the test suite does (test_server.py, manual_cleanup): some of
\* the ids may have left the store since.
terminate_sessions(selection) ==
    /\ w.pc = "idle"
    /\ terminate_each(selection)
    /\ ret' = [NoRet EXCEPT
                  !.op = "terminate", !.status = "returned",
                  !.selected = selection,
                  !.terminated = terminated_ids(selection),
                  !.signalled = {sessions[sid].process :
                                    sid \in terminated_ids(selection)}]
    /\ UNCHANGED <<nprocs, now, w, started, track>>

\* ----------------------------------------------------- get_active_sessions
\* active_sessions without the sessions whose process has exited
active_sessions_running(store, running) ==
    [session_id \in {i \in DOMAIN store : store[i].process \in running} |->
        [pid |-> store[session_id].process, status |-> "running"]]

\* the dict built from the store; running: the processes for which poll()
\* returns None
active_sessions(store, running) ==
    [session_id \in DOMAIN store |->
        [pid |-> store[session_id].process,
         status |-> IF store[session_id].process \in running
                    THEN "running" ELSE "zombie"]]

get_active_sessions(running) ==
    /\ w.pc = "idle"
    /\ ret' = [NoRet EXCEPT !.op = "get_active_sessions",
                            !.active = active_sessions(sessions, running)]
    /\ UNCHANGED <<sessions, nprocs, pending, written, fd_open, now, w, started,
                   match_end, reported, timed, flushed, closes, last_call,
                   taken, track>>

\* ------------------------------------------------------------ specification
\* The whole engine: every operation, the reaper and the clock; one prompt
\* list, the default wait options and one byte of output keep it small.
Next ==
    \/ \E p \in Procs, c \in {"a", Undecodable} :
          SumTo(written, MaxProcs) < MaxOut /\ ProcWrite(p, c)
    \/ now < MaxTime /\ Tick
    \/ start_session_ok
    \/ \E failure \in SpawnFailures :
          start_session_error(failure)
    \/ \E session_id \in Ids :
          wait_begin(session_id, << <<"a">> >>, TRUE, TRUE)
    \/ wait_iteration
    \/ wait_timeout
    \/ \E session_id \in Ids, preflush \in BOOLEAN, write_ok \in BOOLEAN :
          send_command(session_id, preflush, write_ok)
    \/ \E session_id \in Ids, outcome \in ExitOutcomes :
          exit_session(session_id, outcome)
    \/ session_cleanup_cycle
    \/ \E selection \in SUBSET Ids \ {{}} :
          terminate_sessions(selection)
    \/ \E running \in {{}, {sessions[i].process : i \in DOMAIN sessions}} :
          get_active_sessions(running)

Spec == Init /\ [][Next]_vars

\* The caller's operations on the sessions and the processes' output, with
\* every prompt list and more output; the clock stands still, so the reaper
\* selects nothing.
NextEngine ==
    \/ \E p \in Procs, c \in Chars :
          SumTo(written, MaxProcs) < EngineOut /\ ProcWrite(p, c)
    \/ nprocs < EngineProcs /\ start_session_ok
    \/ \E session_id \in 1..EngineProcs, prompts \in PromptLists,
          return_output \in BOOLEAN, consume \in BOOLEAN :
          wait_begin(session_id, prompts, return_output, consume)
    \/ wait_iteration
    \/ wait_timeout
    \/ \E session_id \in 1..EngineProcs, preflush \in BOOLEAN, write_ok \in BOOLEAN :
          send_command(session_id, preflush, write_ok)
    \/ \E session_id \in 1..EngineProcs, outcome \in ExitOutcomes :
          exit_session(session_id, outcome)

SpecEngine == InitEngine /\ [][NextEngine]_vars

\* =================================================================== claims
\* What the claims say, stated without the operators that model the code.

\* marker m occurs in buf at index i (0-based)
Occurs(buf, m, i) ==
    /\ i >= 0
    /\ i + Len(m) <= Len(buf)
    /\ \A j \in 1..Len(m) : buf[i + j] = m[j]

\* the start of the first occurrence of m in buf at or after from, -1 if none
FirstOcc(buf, m, from) ==
    IF \E i \in from..Len(buf) : Occurs(buf, m, i)
    THEN CHOOSE i \in from..Len(buf) :
             Occurs(buf, m, i) /\ \A j \in from..(i - 1) : ~Occurs(buf, m, j)
    ELSE -1

\* buf[a:b]: the characters of buf at the indices a <= i < b
Range(buf, a, b) ==
    [i \in 1..(IF b > a THEN b - a ELSE 0) |-> buf[a + i]]

\* the end of the whole run of whitespace that starts at index from
RunEnd(buf, from) ==
    CHOOSE e \in from..Len(buf) :
        /\ \A i \in (from + 1)..e : buf[i] \in {" ", "\t", "\r", "\n"}
        /\ (e = Len(buf) \/ buf[e + 1] \notin {" ", "\t", "\r", "\n"})

Detected == ret.op = "wait" /\ ret.status = "prompt_detected"
TimedOut ==
    /\ ret.op = "wait"
    /\ ret.status \in {"prompt_timeout_with_bytes_received",
                        "prompt_timeout_no_bytes_received"}
\* the stored record of the session the step just taken returned about
Rec == sessions[ret.session_id]

\* C1: in every stored session record
\* 0 <= search_position <= seek_position <= length(output_buffer).
C1_PositionsOrdered ==
    \A id \in DOMAIN sessions :
        /\ 0 <= sessions[id].search_pos
        /\ sessions[id].search_pos <= sessions[id].seek_position
        /\ sessions[id].seek_position <= Len(sessions[id].shared_buffer)

\* C1 witness: a record with the three positions strictly apart, 0 < search <
\* seek < length, which takes a match, a timeout and a further read.
C1_Witness ==
    \E id \in DOMAIN sessions :
        /\ 0 < sessions[id].search_pos
        /\ sessions[id].search_pos < sessions[id].seek_position
        /\ sessions[id].seek_position < Len(sessions[id].shared_buffer)

\* C2: on one session search_position never decreases, and a wait that matches
\* a marker matches it at or after the end (consumed whitespace included) of
\* every match an earlier wait made.
C2_NoRematch ==
    [][/\ \A id \in DOMAIN sessions \cap DOMAIN sessions' :
            sessions'[id].process = sessions[id].process
                => sessions'[id].search_pos >= sessions[id].search_pos
       /\ (ret'.op = "wait" /\ ret'.status = "prompt_detected")
            => ret'.prompt_index >= match_end[ret'.process]]_vars

\* C2 witness: a wait matched a non-empty marker on a session where an earlier
\* wait had matched one.
C2_Witness ==
    /\ Detected
    /\ ret.prompt # <<>>
    /\ ret.prior_match_end > 0

\* C3 (as claimed): seek_position of a session never decreases.
C3_SeekMonotonic ==
    [][\A id \in DOMAIN sessions \cap DOMAIN sessions' :
          sessions'[id].process = sessions[id].process
              => sessions'[id].seek_position >= sessions[id].seek_position]_vars

\* the prompts of the call that occur in the buffer at or after search_position
Occurring ==
    {k \in DOMAIN ret.prompts :
        FirstOcc(Rec.shared_buffer, ret.prompts[k], ret.search_pos) # -1}
At(k) == FirstOcc(Rec.shared_buffer, ret.prompts[k], ret.search_pos)

C5_CapturedContainsPrompt ==
    (Detected /\ ret.return_output) =>
        \E i \in 0..Len(ret.captured_output) :
            Occurs(ret.captured_output, ret.prompt, i)

\* C6: after a match seek_position is the index after the marker, plus the
\* whole run of whitespace following it when consumption is on; search_position
\* equals it; captured_output is output_buffer[start_position:seek_position];
\* remaining_bytes is the length of the buffer minus seek_position.
C6_MatchAdvance ==
    Detected =>
        LET buf == Rec.shared_buffer
            after == ret.prompt_index + Len(ret.prompt)
        IN  /\ Occurs(buf, ret.prompt, ret.prompt_index)
            /\ Rec.seek_position =
                   (IF ret.consume THEN RunEnd(buf, after) ELSE after)
            /\ Rec.search_pos = Rec.seek_position
            /\ ret.return_output =>
                   /\ ~ret.captured_none
                   /\ ret.captured_output =
                          Range(buf, ret.start_pos, Rec.seek_position)
            /\ ret.remaining_bytes = Len(buf) - Rec.seek_position

\* C6 witness: a match of a non-empty marker with consumption on that consumed
\* whitespace, with the marker and the whitespace in captured_output.
C6_Witness ==
    /\ Detected
    /\ ret.consume /\ ret.return_output
    /\ ret.prompt # <<>>
    /\ Rec.seek_position >= ret.prompt_index + Len(ret.prompt) + 1
    /\ Len(ret.captured_output) >= Len(ret.prompt) + 1

\* C7 (as claimed): a wait that timed out reports bytes received exactly when
\* output_buffer[start_position:] is not empty, with seek_position at the end
\* of the buffer and search_position unchanged.
C7_TimeoutStatus ==
    TimedOut =>
        /\ (ret.status = "prompt_timeout_with_bytes_received")
              <=> (Len(Rec.shared_buffer) > ret.start_pos)
        /\ Rec.seek_position = Len(Rec.shared_buffer)
        /\ Rec.search_pos = ret.search_pos

\* C8 (as claimed): a wait's non-empty captured_output starts at or after the
\* end of every captured_output returned before on the session, and a wait
\* matches no marker that lies wholly inside what a timed-out wait returned.
C8_NoReReport ==
    /\ (ret.op = "wait" /\ ret.captured_output # <<>>)
          => ret.start_pos >= ret.prior_reported
    /\ (Detected /\ ret.prompt # <<>>)
          => ~(/\ ret.prior_timed.lo <= ret.prompt_index
               /\ ret.prompt_index + Len(ret.prompt) <= ret.prior_timed.hi)

\* C9 (as claimed): after a send with preflush both positions are at the end of
\* the buffer, and the next wait neither captures nor matches a marker in what
\* the process had written before the preflush.  (The buffer is the prefix of
\* what the process wrote, so that is the indices below ret.mark.)
C9_PreflushDiscards ==
    /\ (ret.op = "send" /\ ret.preflush /\ ret.status # "error") =>
          /\ Rec.seek_position = Len(Rec.shared_buffer)
          /\ Rec.search_pos = Len(Rec.shared_buffer)
    /\ (ret.op = "wait" /\ ret.status # "error" /\ ret.mark >= 0) =>
          /\ ret.captured_output # <<>> => ret.start_pos >= ret.mark
          /\ (Detected /\ ret.prompt # <<>>) => ret.prompt_index >= ret.mark

\* C10 (as claimed): start_session never returns an id it returned before, and
\* never replaces the entry of a session that is in the store (every process
\* whose descriptor is open is still the process of a store entry).
C10_IdsUnique ==
    /\ \A i, j \in DOMAIN started : i # j => started[i] # started[j]
    /\ \A p \in Procs :
          fd_open[p] => \E id \in DOMAIN sessions : sessions[id].process = p

\* C11: after a reaper cycle every session whose idle time, now - last_activity,
\* exceeded the threshold when the cycle started is absent from the store and
\* from what get_active_sessions returns, however many were idle.
C11_IdleEvicted ==
    [][ret'.op = "cleanup" =>
          \A sid \in DOMAIN sessions :
              now - sessions[sid].last_activity > SESSION_TIMEOUT
                  => /\ sid \notin DOMAIN sessions'
                     /\ \A running \in SUBSET Procs :
                            sid \notin DOMAIN active_sessions(sessions', running)]_vars

\* C11 witness: a cycle that selected two sessions at once has run and left a
\* third session in the store.
C11_Witness ==
    /\ ret.op = "cleanup"
    /\ Cardinality(ret.selected) >= 2
    /\ DOMAIN sessions # {}

\* C12: a reaper cycle leaves in the store, as it was, every session on which
\* the last send_command or wait call was at most the threshold ago.
C12_ActiveSurvives ==
    [][ret'.op = "cleanup" =>
          \A sid \in DOMAIN sessions :
              LET called == last_call[sessions[sid].process]
              IN  (called >= 0 /\ now - called <= SESSION_TIMEOUT)
                      => /\ sid \in DOMAIN sessions'
                         /\ sessions'[sid] = sessions[sid]]_vars

\* C12 witness: a cycle has evicted a session and left one whose last call was
\* exactly the threshold ago, made after the clock had moved on from 0.
C12_Witness ==
    /\ ret.op = "cleanup"
    /\ ret.selected # {}
    /\ \E sid \in DOMAIN sessions :
          /\ last_call[sessions[sid].process] >= 1
          /\ now - last_call[sessions[sid].process] = SESSION_TIMEOUT

CallerOps == {"wait", "send", "exit"}

\* C13: exit_session, wait_for_output_or_prompt and send_command called with an
\* id that is not in the store return the invalid-session value, and such a
\* call leaves the store, every session's record, every descriptor and every
\* terminal's unread output as they were.
C13_UnknownIdNoEffect ==
    [][/\ (w.pc = "idle" /\ ret'.op \in CallerOps
             /\ ret'.session_id \notin DOMAIN sessions)
            => ret'.status = "error"
       /\ (ret'.op \in CallerOps /\ ret'.status = "error")
            => /\ ret'.session_id \notin DOMAIN sessions
               /\ sessions' = sessions
               /\ fd_open' = fd_open
               /\ closes' = closes
               /\ pending' = pending]_vars

\* C13 witness: a wait on an unknown id returned the invalid-session value
\* while another session, with unread output, was in the store.
C13_Witness ==
    /\ ret.op = "wait" /\ ret.status = "error"
    /\ \E sid \in DOMAIN sessions : pending[sessions[sid].process] # <<>>

\* the ids that were removed from the store (their descriptor was closed)
\* before the call that just returned
RemovedBefore ==
    {started[k] : k \in {j \in DOMAIN started :
        /\ closes[j] > 0
        /\ ~(ret.op = "exit" /\ ret.status # "error" /\ ret.process = j)}}

\* C14 (as claimed): a wait, send or exit call on an id that was removed from
\* the store before the call returns the invalid-session value, whatever
\* start_session calls happened in between.
C14_RemovedIdStaysInvalid ==
    (ret.op \in CallerOps /\ ret.session_id \in RemovedBefore)
        => ret.status = "error"

\* C15: exit_session on an id in the store ends, in every termination outcome,
\* with the id absent from the store and from what get_active_sessions
\* returns, and with the session's terminal descriptor closed.
C15_ExitAlwaysReleases ==
    [][(ret'.op = "exit" /\ ret'.session_id \in DOMAIN sessions) =>
          LET sid == ret'.session_id
              p == sessions[sid].process
          IN  /\ ret'.status # "error"
              /\ sid \notin DOMAIN sessions'
              /\ \A running \in SUBSET Procs :
                     sid \notin DOMAIN active_sessions(sessions', running)
              /\ fd_open[p] /\ ~fd_open'[p]
              /\ closes'[p] = closes[p] + 1]_vars

\* C15 witness: an exit in which the process-group signal failed has ended,
\* with the id out of the store and the descriptor closed, while another
\* session stays.
C15_Witness ==
    /\ ret.op = "exit" /\ ret.status = "raised"
    /\ ret.session_id \notin DOMAIN sessions
    /\ ~fd_open[ret.process]
    /\ DOMAIN sessions # {}

\* C16 (as claimed): the terminal descriptor of every session started is closed
\* at most once, and exactly once as soon as no store entry holds it.
C16_ClosedExactlyOnce ==
    \A p \in 1..nprocs :
        /\ closes[p] <= 1
        /\ (\A sid \in DOMAIN sessions : sessions[sid].process # p)
              => closes[p] = 1

\* C17 (as claimed): a start_session that fails returns an error value, leaves
\* the store as it was, and leaves none of the descriptors it allocated open.
C17_FailedStartReleases ==
    [][(ret'.op = "start_session" /\ ret'.status = "error") =>
          /\ sessions' = sessions
          /\ ret'.fds_left = 0]_vars

\* C18 (as claimed): every wait, send and exit call returns a result value:
\* none ends by raising.
C18_NeverRaises ==
    ret.op \in CallerOps =>
        ret.status \in {"error", "prompt_detected",
                        "prompt_timeout_with_bytes_received",
                        "prompt_timeout_no_bytes_received",
                        "sent", "write_failed", "terminated"}

\* C19: get_active_sessions returns exactly the ids in the store and changes
\* no session record, so the sessions a reaper cycle would select are the same
\* before and after it.
C19_ListIsReadOnly ==
    [][ret'.op = "get_active_sessions" =>
          /\ DOMAIN ret'.active = DOMAIN sessions
          /\ sessions' = sessions
          /\ \A sid \in DOMAIN sessions :
                 (now' - sessions'[sid].last_activity > SESSION_TIMEOUT)
                     <=> (now - sessions[sid].last_activity > SESSION_TIMEOUT)]_vars

\* C19 witness: get_active_sessions returned two sessions, a process of which
\* had exited, while a session was due for eviction.
C19_Witness ==
    /\ ret.op = "get_active_sessions"
    /\ Cardinality(DOMAIN ret.active) >= 2
    /\ \E sid \in DOMAIN ret.active : ret.active[sid].status = "zombie"
    /\ \E sid \in DOMAIN sessions :
          now - sessions[sid].last_activity > SESSION_TIMEOUT

\* C21: in every state each id in the store holds a terminal descriptor that is
\* open and was never closed, and no process whose descriptor was closed has a
\* store entry; a wait or a preflush never puts back the record of a session
\* that exit_session or the reaper removed.
C21_StoreOwnsOpenDescriptors ==
    /\ \A sid \in DOMAIN sessions :
          /\ fd_open[sessions[sid].process]
          /\ closes[sessions[sid].process] = 0
    /\ \A p \in Procs :
          closes[p] > 0 => \A sid \in DOMAIN sessions : sessions[sid].process # p
    /\ w.pc = "loop" =>
          /\ w.session_id \in DOMAIN sessions
          /\ sessions[w.session_id].process = w.process

\* C21 witness: a wait that timed out has written its session's record to the
\* store after another session was removed and its descriptor closed.
C21_Witness ==
    /\ TimedOut
    /\ ret.session_id \in DOMAIN sessions
    /\ \E p \in Procs : closes[p] > 0

\* C22: terminating a selection of which an id has already left the store (an
\* explicit exit_session removed it after it was selected) returns without an
\* error, does nothing for that id (no signal to its process and no second
\* close of its descriptor) and terminates every selected id that is in the
\* store; sessions outside the selection stay as they were.
C22_StaleSelectionSkipped ==
    [][ret'.op = "terminate" =>
          LET present == ret'.selected \cap DOMAIN sessions
              gone == {sessions[sid].process : sid \in present}
          IN  /\ ret'.status = "returned"
              /\ ret'.terminated = present
              /\ ret'.signalled = gone
              /\ DOMAIN sessions' = DOMAIN sessions \ ret'.selected
              /\ \A sid \in DOMAIN sessions' : sessions'[sid] = sessions[sid]
              /\ \A p \in Procs :
                     /\ closes'[p] = closes[p] + (IF p \in gone THEN 1 ELSE 0)
                     /\ closes'[p] <= 1
                     /\ fd_open'[p] = (fd_open[p] /\ p \notin gone)]_vars

\* C22 witness: a termination run over two selected ids, of which the lower
\* had left the store before (its descriptor was closed then, not by this run)
\* and the higher was in the store and has been terminated by the run.
C22_Witness ==
    /\ ret.op = "terminate"
    /\ \E gone_id \in ret.selected \ ret.terminated, sid \in ret.terminated :
          /\ gone_id < sid
          /\ \E k \in DOMAIN started :
                 /\ started[k] = gone_id
                 /\ closes[k] = 1
                 /\ k \notin ret.signalled

\* s is an initial part of t
IsPrefix(s, t) == Len(s) <= Len(t) /\ \A i \in 1..Len(s) : s[i] = t[i]

\* C23 (as claimed): the stored buffer of a session only grows at its end, and
\* after every step it holds every byte that has been read from the session's
\* terminal, in the order read.
C23_BufferAppendOnlyComplete ==
    [][/\ \A sid \in DOMAIN sessions \cap DOMAIN sessions' :
            sessions'[sid].process = sessions[sid].process
                => IsPrefix(sessions[sid].shared_buffer,
                            sessions'[sid].shared_buffer)
       /\ \A sid \in DOMAIN sessions' :
            IsPrefix(taken'[sessions'[sid].process],
                     sessions'[sid].shared_buffer)]_vars

\* the three statuses a wait on a stored session ends with
WaitStatuses ==
    {"prompt_detected", "prompt_timeout_with_bytes_received",
     "prompt_timeout_no_bytes_received"}

\* C24 (as claimed): a wait call on a session in the store that has entered
\* its loop ends by returning a result whose status is one of prompt_detected,
\* prompt_timeout_with_bytes_received and prompt_timeout_no_bytes_received,
\* whatever the process writes meanwhile.
C24_WaitEndsWithStatus ==
    [][w.pc = "loop" /\ w'.pc = "idle"
          => /\ ret'.op = "wait"
             /\ ret'.session_id = w.session_id
             /\ ret'.status \in WaitStatuses]_vars

====
